---- MODULE Spec2Model ----
(***************************************************************************)
(* Model of the EthCC planner chat agent: the ChatAgent session controller *)
(* (src/server/agent.ts), the TwitterAnalysisWorkflow background run       *)
(* (src/server/twitter-workflow.ts) and the scraper's result shape         *)
(* (src/server/twitter-scraper.ts).                                        *)
(*                                                                         *)
(* One session is modelled: its message list, its agent state              *)
(* (twitterProfile), the user turn in progress and the workflow runs it    *)
(* has started.  Strings that the code builds by interpolation are built   *)
(* by concatenation here, so that identifier collisions are decided by the *)
(* check and not assumed away.                                             *)
(***************************************************************************)
EXTENDS Integers, Sequences, FiniteSets, TLC

VARIABLES
    messages,   \* this.messages: the session's message list
    state,      \* this.state.twitterProfile: <<>> (undefined) or <<profile>>
    runs,       \* the workflow runs started so far, in start order
    turn,       \* the user turn in progress
    nTurns,     \* number of user turns received so far
    call,       \* the last call of a search helper or of the search tool
    live        \* the page connected to the agent and the workflow-progress
                \* events pushed to it

vars == <<messages, state, runs, turn, nTurns, call, live>>

----------------------------------------------------------------------------
(* Bounds of the model *)

MaxRuns == 2        \* workflow runs started in one behaviour
MaxTurns == 2       \* user turns received in one behaviour
MaxDeliveries == 2  \* times one terminal callback may fire for one run
MaxTweets == 1      \* tweets one scrape returns
MaxOverlapTurns == 3  \* user turns of a behaviour of OverlapSpec
MaxCascadeTurns == 2  \* user turns of a behaviour of CascadeSpec
MaxProgressTurns == 1 \* user turns of a behaviour of ProgressSpec

Handles == {"alice", "bob"}

----------------------------------------------------------------------------
(* Program constants *)

\* a scrape step that is allowed one attempt more than retries.limit
ScrapeRetryLimitOff == 3 + 1

\* retries.limit of step.do("scrape-tweets")
ScrapeRetryLimit == 3

\* retries.limit of step.do("summarize-interests")
SummarizeRetryLimit == 2

\* parsed.interests.slice(0, 10)
MaxInterests == 10

----------------------------------------------------------------------------
(* Small helpers *)

Last(s) == s[Len(s)]

Take(s, n) == SubSeq(s, 1, IF Len(s) < n THEN Len(s) ELSE n)

Count(msgs, id) == Cardinality({i \in 1..Len(msgs) : msgs[i].id = id})

HasId(msgs, id) == \E i \in 1..Len(msgs) : msgs[i].id = id

----------------------------------------------------------------------------
(* User texts.  A text is abstracted to what the two intent checks read   *)
(* from it: whether an injection pattern matches, and what each of the    *)
(* three handle patterns captures in it: url for TWITTER_URL_RE, keyword  *)
(* for TWITTER_HANDLE_RE, correction for TWITTER_CORRECTION_RE, "" when   *)
(* the pattern does not match (a capture is never empty).                 *)

\* the texts of the turns of a session: a handle is given in the keyword
\* phrasing ("my twitter is @alice")
UserTexts ==
    [kind : {"user"}, inj : BOOLEAN, url : {""},
     keyword : Handles \cup {""}, correction : {""}]

\* the texts in which any of the three patterns may match, each with a
\* capture of its own, and no injection pattern does
CascadeTexts ==
    [kind : {"user"}, inj : {FALSE}, url : Handles \cup {""},
     keyword : Handles \cup {""}, correction : Handles \cup {""}]

\* the text onChatMessage works on when the last message is not a user message
EmptyText ==
    [kind |-> "user", inj |-> FALSE, url |-> "", keyword |-> "",
     correction |-> ""]

\* a cascade that tries the keyword phrasing before the URL
extractTwitterHandleKeywordFirst(text) ==
    IF text.keyword # "" THEN text.keyword
    ELSE IF text.url # "" THEN text.url
    ELSE text.correction

\* the three patterns in order, the first capture returned; "" is null
extractTwitterHandle(text) ==
    IF text.url # "" THEN text.url
    ELSE IF text.keyword # "" THEN text.keyword
    ELSE text.correction

\* an injection check that lets a text through when it names a handle
detectInjectionUnlessHandle(text) ==
    text.inj /\ extractTwitterHandle(text) = ""

detectInjection(text) == text.inj

----------------------------------------------------------------------------
(* Identifiers *)

\* externally assigned identifier of the user message ("u") or of the reply
\* ("a") of the n-th turn
GeneratedId(role, n) == "msg-" \o role \o ToString(n)

\* the workflow instance identifier of the r-th run: assigned by the
\* workflow engine, never of the form of a handle (\w{1,15})
InstanceId(r) == "instance/" \o ToString(r)

ErrorMsgId(key) == "twitter-error-" \o key

ProfileMsgId(handle) == "twitter-profile-" \o handle

----------------------------------------------------------------------------
(* Workflow results *)

NoTweetsError(handle) ==
    "No tweets found for @" \o handle

NoUsableError(handle) ==
    "No usable tweet content found for @" \o handle

ErrorResult(handle, error) == [handle |-> handle, error |-> error]

\* what the language model's answer parses to: the parsed interests and
\* summary, or the fallback when JSON.parse (or reading .interests) throws
\* The shapes of the model's answer for which the attempt returns:
\*   "json"         the JSON object asked for
\*   "malformed"    not JSON: JSON.parse throws inside the try
\*   "noInterests"  JSON without an interests member (or JSON null, an
\*                  array, a number): reading parsed.interests.length throws
\*                  inside the try
LLMAnswers == {"json", "malformed", "noInterests"}

\* The shapes for which it throws: JSON whose interests member has no
\* slice method (a number, an object, true).  Reading its .length inside
\* the try gives undefined and throws nothing, so the catch is passed by,
\* and parsed.interests.slice(0, 10), after the try, throws.
ThrowingAnswers == {"numberInterests"}

SliceError == "parsed.interests.slice is not a function"

\* the try block of the parse throws and the catch installs the fallback
ParseThrows(answer) == answer \in {"malformed", "noInterests"}

FallbackParsed(handle) ==
    [interests |-> <<"Ethereum", "blockchain">>,
     summary |-> "Based on @" \o handle \o "'s tweets"]

Parsed(handle, answer) ==
    IF ParseThrows(answer)
    THEN FallbackParsed(handle)
    ELSE [interests |-> <<"DeFi", "ZK">>, summary |-> "llm summary"]

\* the profile the summarize step returns
ProfileOf(handle, answer, tweetCount, usable) ==
    [handle |-> handle,
     interests |-> Take(Parsed(handle, answer).interests, MaxInterests),
     summary |-> Parsed(handle, answer).summary,
     tweetCount |-> tweetCount]

----------------------------------------------------------------------------
(* ChatAgent callbacks as functions of the message list *)

AssistantMsg(id, text) == [id |-> id, role |-> "assistant", text |-> text]

UserMsg(id, text) == [id |-> id, role |-> "user", text |-> text]

\* an onWorkflowComplete that writes its message at the head of the list
OnWorkflowCompleteUnshift(msgs, data) ==
    IF "error" \in DOMAIN data
    THEN IF \E i \in 1..Len(msgs) : msgs[i].id = "twitter-error-" \o data.handle
         THEN msgs
         ELSE <<AssistantMsg("twitter-error-" \o data.handle,
                             [kind |-> "error", error |-> data.error])>> \o msgs
    ELSE IF \E i \in 1..Len(msgs) : msgs[i].id = "twitter-profile-" \o data.handle
         THEN msgs
         ELSE <<AssistantMsg("twitter-profile-" \o data.handle,
                             [kind |-> "profile", handle |-> data.handle,
                              interests |-> data.interests,
                              summary |-> data.summary])>> \o msgs

\* onWorkflowComplete without its `some()` guards
OnWorkflowCompleteNoGuard(msgs, data) ==
    IF "error" \in DOMAIN data
    THEN Append(msgs, AssistantMsg(ErrorMsgId(data.handle), [kind |-> "error", error |-> data.error]))
    ELSE Append(msgs, AssistantMsg(ProfileMsgId(data.handle),
                                   [kind |-> "profile", handle |-> data.handle,
                                    interests |-> data.interests,
                                    summary |-> data.summary]))

\* `if (profile.interests)`: interests is an array, and an array is truthy
\* in JavaScript even when it is empty
Truthy(interests) == Len(interests) >= 0

\* onWorkflowComplete: the message list after handling result `data`
OnWorkflowComplete(msgs, data) ==
    IF "error" \in DOMAIN data
    THEN IF ~HasId(msgs, ErrorMsgId(data.handle))
         THEN Append(msgs, AssistantMsg(ErrorMsgId(data.handle),
                                        [kind |-> "error", error |-> data.error]))
         ELSE msgs
    ELSE IF Truthy(data.interests) /\ ~HasId(msgs, ProfileMsgId(data.handle))
         THEN Append(msgs, AssistantMsg(ProfileMsgId(data.handle),
                                        [kind |-> "profile", handle |-> data.handle,
                                    interests |-> data.interests,
                                    summary |-> data.summary]))
         ELSE msgs

\* onWorkflowError without its `some()` guard
OnWorkflowErrorNoGuard(msgs, instanceId, error) ==
    Append(msgs, AssistantMsg(ErrorMsgId(instanceId), [kind |-> "error", error |-> error]))

\* onWorkflowError: the message list after handling an engine-reported error
OnWorkflowError(msgs, instanceId, error) ==
    IF ~HasId(msgs, ErrorMsgId(instanceId))
    THEN Append(msgs, AssistantMsg(ErrorMsgId(instanceId), [kind |-> "error", error |-> error]))
    ELSE msgs

----------------------------------------------------------------------------
(* Workflow runs *)

\* a run started for a fixed handle instead of the extracted one
NewRunForAlice(handle) ==
    [handle |-> "alice", pc |-> "scrape", attempts |-> 0, lastChance |-> FALSE,
     tweetCount |-> 0, usable |-> 0, failedStep |-> "", cause |-> "",
     profile |-> <<>>, result |-> <<>>,
     reported |-> 0, merged |-> FALSE,
     delivered |-> 0, errorCalls |-> 0, appended |-> 0]

\* A run of TwitterAnalysisWorkflow.  pc is the position in run():
\*   "scrape"     inside step.do("scrape-tweets")
\*   "exit"       scrapeResult.tweetCount === 0 was found true
\*   "summarize"  inside step.do("summarize-interests")
\*   "merge"      before step.mergeAgentState
\*   "report"     before the final step.reportComplete
\*   "done"       run() returned
\*   "threw"      run() was left by an exception
\* attempts is the attempt counter of the step.do call in progress (a
\* variable of its retry loop: 0 again once step.do has returned, kept when
\* step.do rejects).  tweetCount and usable are the scrape result: the
\* number of tweets and the number of them whose text is longer than 10
\* characters.  failedStep and cause are the step whose step.do rejected and
\* the error run() was left with.  lastChance holds while run() stands right
\* after a step.do call that returned from its last allowed attempt.
\* reported, merged, delivered, errorCalls and appended record what the run
\* has done so far.
NewRun(handle) ==
    [handle |-> handle, pc |-> "scrape", attempts |-> 0, lastChance |-> FALSE,
     tweetCount |-> 0, usable |-> 0, failedStep |-> "", cause |-> "",
     profile |-> <<>>, result |-> <<>>,
     reported |-> 0, merged |-> FALSE,
     delivered |-> 0, errorCalls |-> 0, appended |-> 0]

RunIds == 1..Len(runs)

Terminated(r) == runs[r].pc \in {"done", "threw"}

\* step.do: where run() stands after an attempt failed (threw or timed out),
\* `attempts` counting that attempt.  With attempts left the step is tried
\* again; with none left step.do rejects, and run() awaits both steps
\* outside any try/catch, so the rejection leaves run().
AfterFailedAttempt(attempts, limit, pc) ==
    IF attempts >= limit THEN "threw" ELSE pc

\* step.do: the error step.do rejects with after an attempt failed with
\* error c: the last attempt's error when no attempt is left, none ("")
\* while the step is retried (the errors of retried attempts are dropped)
ThrownCause(attempts, limit, c) ==
    IF attempts >= limit THEN c ELSE ""

\* step.do: the step whose step.do rejected ("" while none has)
FailedStep(attempts, limit, name) ==
    IF attempts >= limit THEN name ELSE ""

ScrapeFailures == {"Apify API error", "timeout"}

\* what an attempt of the summarize step fails with when there is usable
\* text: generateText rejects, the attempt times out, or the model's answer
\* is one of ThrowingAnswers
SummarizeFailures == {"generateText failed", "timeout", SliceError}

AllSummarizeFailures ==
    SummarizeFailures \cup {NoUsableError(h) : h \in Handles}

----------------------------------------------------------------------------
(* Progress events *)

\* Percentages are written in hundredths: percent: 0.1 is 10.

\* no page is connected
NoConnection == [open |-> FALSE, events |-> <<>>]

\* a page is connected and has received nothing
Connected == [open |-> TRUE, events |-> <<>>]

\* onWorkflowProgress: this.broadcast(...) sends the event to the connected
\* page, if there is one.  The entry keeps the run the event comes from.
onWorkflowProgress(lv, r, progress) ==
    IF lv.open
    THEN [lv EXCEPT !.events = Append(@, [run |-> r, progress |-> progress])]
    ELSE lv

\* await this.reportProgress(...) for each event of a sequence, in order;
\* every call is awaited, so that the handler has run when the next
\* statement of run() starts
RECURSIVE reportProgress(_, _, _)
reportProgress(lv, r, events) ==
    IF events = <<>> THEN lv
    ELSE reportProgress(onWorkflowProgress(lv, r, Head(events)), r, Tail(events))

\* a scrape attempt whose "complete" event carries a lower percentage than
\* its "running" event
ScrapeAttemptProgressFalling(ok) ==
    <<[step |-> "scrape", status |-> "running", percent |-> 10]>>
    \o (IF ok
        THEN <<[step |-> "scrape", status |-> "complete", percent |-> 4]>>
        ELSE <<>>)

\* the events of one attempt of the scrape step: "running" before
\* scrapeTweets is called, "complete" after it returned
ScrapeAttemptProgress(ok) ==
    <<[step |-> "scrape", status |-> "running", percent |-> 10]>>
    \o (IF ok
        THEN <<[step |-> "scrape", status |-> "complete", percent |-> 40]>>
        ELSE <<>>)

\* the event of the early exit, which carries no percentage
EarlyExitProgress == <<[step |-> "scrape", status |-> "error"]>>

\* the events of one attempt of the summarize step: "running" before the
\* tweets are filtered, "complete" after the profile was built
SummarizeAttemptProgress(ok) ==
    <<[step |-> "analyze", status |-> "running", percent |-> 50]>>
    \o (IF ok
        THEN <<[step |-> "analyze", status |-> "complete", percent |-> 90]>>
        ELSE <<>>)

\* the event between mergeAgentState and the final reportComplete
DoneProgress == <<[step |-> "done", status |-> "complete", percent |-> 100]>>

----------------------------------------------------------------------------
(* Steps of run() *)

\* run() without the early exit
AfterScrapeNoCheck(tweetCount) == "summarize"

\* run() taking the early exit whatever the scrape returned
AfterScrapeAlwaysExit(tweetCount) == "exit"

\* `if (scrapeResult.tweetCount === 0)` after the scrape step
AfterScrape(tweetCount) ==
    IF tweetCount = 0 THEN "exit" ELSE "summarize"

\* an attempt of the scrape step returns a result
ScrapeSucceeds(r, n, u) ==
    /\ r \in RunIds
    /\ runs[r].pc = "scrape"
    /\ runs[r].attempts < ScrapeRetryLimit
    /\ runs' = [runs EXCEPT ![r].attempts = 0,
                            ![r].lastChance =
                                (runs[r].attempts + 1 = ScrapeRetryLimit),
                            ![r].tweetCount = n,
                            ![r].usable = u,
                            ![r].pc = AfterScrape(n)]
    /\ live' = reportProgress(live, r, ScrapeAttemptProgress(TRUE))
    /\ UNCHANGED <<messages, state, turn, nTurns, call>>

\* an attempt of the scrape step throws or times out
ScrapeFails(r, c) ==
    /\ r \in RunIds
    /\ runs[r].pc = "scrape"
    /\ runs[r].attempts < ScrapeRetryLimit
    /\ runs' = [runs EXCEPT ![r].attempts = @ + 1,
                            ![r].cause = ThrownCause(runs[r].attempts + 1,
                                                     ScrapeRetryLimit, c),
                            ![r].failedStep = FailedStep(runs[r].attempts + 1,
                                                         ScrapeRetryLimit,
                                                         "scrape-tweets"),
                            ![r].pc = AfterFailedAttempt(runs[r].attempts + 1,
                                                         ScrapeRetryLimit, "scrape")]
    /\ live' = reportProgress(live, r, ScrapeAttemptProgress(FALSE))
    /\ UNCHANGED <<messages, state, turn, nTurns, call>>

\* an early exit whose progress event is also written into the history
EarlyExitPostsProgress(r) ==
    /\ r \in RunIds
    /\ runs[r].pc = "exit"
    /\ runs' = [runs EXCEPT
                  ![r].result = <<ErrorResult(runs[r].handle,
                                              NoTweetsError(runs[r].handle))>>,
                  ![r].reported = @ + 1,
                  ![r].lastChance = FALSE,
                  ![r].pc = "done"]
    /\ live' = reportProgress(live, r, EarlyExitProgress)
    /\ messages' = Append(messages,
                          AssistantMsg(ErrorMsgId(runs[r].handle),
                                       [kind |-> "progress"]))
    /\ UNCHANGED <<state, turn, nTurns, call>>

\* the early exit: reportComplete(errorResult); return errorResult
EarlyExit(r) ==
    /\ r \in RunIds
    /\ runs[r].pc = "exit"
    /\ runs' = [runs EXCEPT
                  ![r].result = <<ErrorResult(runs[r].handle,
                                              NoTweetsError(runs[r].handle))>>,
                  ![r].reported = @ + 1,
                  ![r].lastChance = FALSE,
                  ![r].pc = "done"]
    /\ live' = reportProgress(live, r, EarlyExitProgress)
    /\ UNCHANGED <<messages, state, turn, nTurns, call>>

\* a run() that goes from the summarize step straight to reportComplete
SummarizeSucceedsSkipMerge(r, answer) ==
    /\ r \in RunIds
    /\ runs[r].pc = "summarize"
    /\ runs[r].attempts < SummarizeRetryLimit
    /\ runs[r].usable > 0
    /\ runs' = [runs EXCEPT
                  ![r].attempts = 0,
                  ![r].lastChance = (runs[r].attempts + 1 = SummarizeRetryLimit),
                  ![r].profile = <<ProfileOf(runs[r].handle, answer,
                                             runs[r].tweetCount, runs[r].usable)>>,
                  ![r].pc = "report"]
    /\ live' = reportProgress(live, r, SummarizeAttemptProgress(TRUE))
    /\ UNCHANGED <<messages, state, turn, nTurns, call>>

\* an attempt of the summarize step returns a profile; a malformed model
\* answer is caught inside the attempt and replaced by the fallback
SummarizeSucceeds(r, answer) ==
    /\ r \in RunIds
    /\ runs[r].pc = "summarize"
    /\ runs[r].attempts < SummarizeRetryLimit
    /\ runs[r].usable > 0
    /\ runs' = [runs EXCEPT
                  ![r].attempts = 0,
                  ![r].lastChance = (runs[r].attempts + 1 = SummarizeRetryLimit),
                  ![r].profile = <<ProfileOf(runs[r].handle, answer,
                                             runs[r].tweetCount, runs[r].usable)>>,
                  ![r].pc = "merge"]
    /\ live' = reportProgress(live, r, SummarizeAttemptProgress(TRUE))
    /\ UNCHANGED <<messages, state, turn, nTurns, call>>

\* an attempt of the summarize step throws or times out; with no tweet
\* longer than 10 characters the attempt throws before the model is called
SummarizeFails(r, c) ==
    /\ r \in RunIds
    /\ runs[r].pc = "summarize"
    /\ runs[r].attempts < SummarizeRetryLimit
    /\ IF runs[r].usable = 0
       THEN c \in {NoUsableError(runs[r].handle), "timeout"}
       ELSE c \in SummarizeFailures
    /\ runs' = [runs EXCEPT
                  ![r].attempts = @ + 1,
                  ![r].lastChance = FALSE,
                  ![r].cause = ThrownCause(runs[r].attempts + 1,
                                           SummarizeRetryLimit, c),
                  ![r].failedStep = FailedStep(runs[r].attempts + 1,
                                               SummarizeRetryLimit,
                                               "summarize-interests"),
                  ![r].pc = AfterFailedAttempt(runs[r].attempts + 1,
                                               SummarizeRetryLimit, "summarize")]
    /\ live' = reportProgress(live, r, SummarizeAttemptProgress(FALSE))
    /\ UNCHANGED <<messages, state, turn, nTurns, call>>

\* a merge step that also reports the profile, before the final report
MergeAgentStateAndReport(r) ==
    /\ r \in RunIds
    /\ runs[r].pc = "merge"
    /\ state' = <<runs[r].profile[1]>>
    /\ runs' = [runs EXCEPT ![r].merged = TRUE,
                            ![r].lastChance = FALSE,
                            ![r].result = runs[r].profile,
                            ![r].reported = @ + 1,
                            ![r].pc = "report"]
    /\ UNCHANGED <<messages, turn, nTurns, call, live>>

\* a merge that writes the profile over the stored one field by field and
\* keeps the stored topics
MergeAgentStateKeepInterests(r) ==
    /\ r \in RunIds
    /\ runs[r].pc = "merge"
    /\ state' = IF state = <<>>
                THEN <<runs[r].profile[1]>>
                ELSE <<[runs[r].profile[1] EXCEPT
                          !.interests = state[1].interests]>>
    /\ runs' = [runs EXCEPT ![r].merged = TRUE,
                            ![r].lastChance = FALSE,
                            ![r].pc = "report"]
    /\ UNCHANGED <<messages, turn, nTurns, call, live>>

\* step.mergeAgentState({ twitterProfile: profile })
MergeAgentState(r) ==
    /\ r \in RunIds
    /\ runs[r].pc = "merge"
    /\ state' = <<runs[r].profile[1]>>
    /\ runs' = [runs EXCEPT ![r].merged = TRUE,
                            ![r].lastChance = FALSE,
                            ![r].pc = "report"]
    /\ UNCHANGED <<messages, turn, nTurns, call, live>>

\* reportProgress({ step: "done", ... }); step.reportComplete(profile);
\* return profile
ReportComplete(r) ==
    /\ r \in RunIds
    /\ runs[r].pc = "report"
    /\ runs' = [runs EXCEPT ![r].result = runs[r].profile,
                            ![r].reported = @ + 1,
                            ![r].pc = "done"]
    /\ live' = reportProgress(live, r, DoneProgress)
    /\ UNCHANGED <<messages, state, turn, nTurns, call>>

----------------------------------------------------------------------------
(* Callbacks of the workflow engine into the agent *)

\* an onWorkflowComplete that also stores a delivered profile in the state
DeliverCompleteSetsState(r) ==
    /\ r \in RunIds
    /\ runs[r].result # <<>>
    /\ runs[r].delivered < MaxDeliveries
    /\ messages' = OnWorkflowComplete(messages, runs[r].result[1])
    /\ state' = IF "error" \in DOMAIN runs[r].result[1] THEN state
                ELSE runs[r].result
    /\ runs' = [runs EXCEPT ![r].delivered = @ + 1,
                            ![r].appended = @ + Len(messages') - Len(messages)]
    /\ UNCHANGED <<turn, nTurns, call, live>>

\* onWorkflowComplete fires for a reported result (possibly more than once)
DeliverComplete(r) ==
    /\ r \in RunIds
    /\ runs[r].result # <<>>
    /\ runs[r].delivered < MaxDeliveries
    /\ messages' = OnWorkflowComplete(messages, runs[r].result[1])
    /\ runs' = [runs EXCEPT ![r].delivered = @ + 1,
                            ![r].appended = @ + Len(messages') - Len(messages)]
    /\ UNCHANGED <<state, turn, nTurns, call, live>>

\* onWorkflowError may fire for a run whose run() threw: the engine does not
\* call it reliably, so it is a step the model may or may not take
DeliverError(r) ==
    /\ r \in RunIds
    /\ runs[r].pc = "threw"
    /\ runs[r].errorCalls < MaxDeliveries
    /\ messages' = OnWorkflowError(messages, InstanceId(r), runs[r].cause)
    /\ runs' = [runs EXCEPT ![r].errorCalls = @ + 1,
                            ![r].appended = @ + Len(messages') - Len(messages)]
    /\ UNCHANGED <<state, turn, nTurns, call, live>>

----------------------------------------------------------------------------
(* User turns *)

Idle == [phase |-> "idle"]

\* the framework appends the user's message before it calls onChatMessage;
\* a behaviour receives at most maxTurns turns
ReceiveTurn(text, maxTurns) ==
    /\ turn.phase = "idle"
    /\ nTurns < maxTurns
    /\ extractTwitterHandle(text) # "" => Len(runs) < MaxRuns
    /\ nTurns' = nTurns + 1
    /\ messages' = Append(messages, UserMsg(GeneratedId("u", nTurns + 1), text))
    /\ turn' = [phase |-> "received"]
    /\ UNCHANGED <<state, runs, call, live>>

ReceiveUserMessage(text) == ReceiveTurn(text, MaxTurns)

\* `this.messages.at(-1)` and the text taken from it
UserTextOf(msgs) ==
    IF msgs # <<>> /\ Last(msgs).role = "user" THEN Last(msgs).text ELSE EmptyText

\* onChatMessage up to the point where it returns a Response or starts
\* the model: the injection check, the handle check, the profile context
OnChatMessage ==
    /\ turn.phase = "received"
    /\ LET userText == UserTextOf(messages)
           twitterHandle == extractTwitterHandle(userText)
       IN  IF detectInjection(userText)
           THEN /\ turn' = [phase |-> "reply", reply |-> [kind |-> "refusal"]]
                /\ UNCHANGED <<state, runs>>
           ELSE IF twitterHandle # ""
           THEN /\ Len(runs) < MaxRuns
                /\ state' = <<>>
                /\ runs' = Append(runs, NewRun(twitterHandle))
                /\ turn' = [phase |-> "reply",
                            reply |-> [kind |-> "ack", handle |-> twitterHandle]]
           ELSE /\ turn' = [phase |-> "reasoning", profile |-> state]
                /\ UNCHANGED <<state, runs>>
    /\ UNCHANGED <<messages, nTurns, call, live>>

\* a reply that is held back until every run has ended
SendReplyAfterRuns ==
    /\ turn.phase = "reply"
    /\ \A r \in 1..Len(runs) : runs[r].pc \in {"done", "threw"}
    /\ messages' = Append(messages,
                          AssistantMsg("msg-a" \o ToString(nTurns), turn.reply))
    /\ turn' = [phase |-> "idle"]
    /\ UNCHANGED <<state, runs, nTurns, call, live>>

\* the framework persists the plaintext Response as the turn's reply
SendReply ==
    /\ turn.phase = "reply"
    /\ messages' = Append(messages,
                          AssistantMsg(GeneratedId("a", nTurns), turn.reply))
    /\ turn' = Idle
    /\ UNCHANGED <<state, runs, nTurns, call, live>>

\* streamText finishes and the framework persists the model's reply
FinishReasoning ==
    /\ turn.phase = "reasoning"
    /\ messages' = Append(messages,
                          AssistantMsg(GeneratedId("a", nTurns), [kind |-> "llm"]))
    /\ turn' = Idle
    /\ UNCHANGED <<state, runs, nTurns, call, live>>

\* the session is idle after a turn that was stopped while the runs of
\* `inFlight` had not ended
IdleAfterAbort(inFlight) == [phase |-> "idle", aborted |-> inFlight]

\* an abort that cancels the runs in flight together with the request
AbortReasoningAndRuns ==
    /\ turn.phase = "reasoning"
    /\ turn' = [phase |-> "idle",
                aborted |-> {r \in 1..Len(runs) :
                                runs[r].pc \notin {"done", "threw"}}]
    /\ runs' = [r \in 1..Len(runs) |->
                    IF runs[r].pc \in {"done", "threw"}
                    THEN runs[r]
                    ELSE [runs[r] EXCEPT !.pc = "threw", !.cause = "aborted"]]
    /\ UNCHANGED <<messages, state, nTurns, call, live>>

\* the user stops the turn: abortSignal cancels the streamText request
AbortReasoning ==
    /\ turn.phase = "reasoning"
    /\ turn' = IdleAfterAbort({r \in RunIds : ~Terminated(r)})
    /\ UNCHANGED <<messages, state, runs, nTurns, call, live>>

\* the Clear button: clearHistory() empties the message list
ClearHistory ==
    /\ messages # <<>>
    /\ messages' = <<>>
    /\ UNCHANGED <<state, runs, turn, nTurns, call, live>>

----------------------------------------------------------------------------
(* The programme and the search helpers *)

\* Bounds of the search inputs
MaxTalks == 3        \* talks in the list handed to a search
MaxQueryWords == 2   \* words of a query
MaxAsked == 2        \* interests of one search
MaxLimit == 2        \* largest limit of a call of the search tool
MaxOffset == 3       \* largest offset of a call of the search tool

\* A string is a sequence of characters.
zkp == <<"z", "k", "p">>
ZkP == <<"Z", "k", "P">>
defi == <<"d", "e", "f", "i">>
DeFi == <<"D", "e", "F", "i">>
dao == <<"d", "a", "o">>
mev == <<"m", "e", "v">>
zk == <<"z", "k">>
Space == <<" ">>

\* /\s/
Whitespace == {" ", "\t"}

LowerCaseOf ==
    ("Z" :> "z") @@ ("K" :> "k") @@ ("P" :> "p") @@ ("D" :> "d") @@ ("F" :> "f")

\* String.prototype.toLowerCase
toLowerCase(s) ==
    [i \in 1..Len(s) |->
        IF s[i] \in DOMAIN LowerCaseOf THEN LowerCaseOf[s[i]] ELSE s[i]]

\* String.prototype.split(/\s+/): the pieces between the maximal runs of
\* whitespace; a leading or trailing run leaves an empty piece, and the
\* empty string gives one empty piece.  cur is the piece being read, inRun
\* whether the last character was whitespace.
RECURSIVE SplitFrom(_, _, _)
SplitFrom(s, cur, inRun) ==
    IF s = <<>> THEN <<cur>>
    ELSE IF Head(s) \in Whitespace
         THEN IF inRun THEN SplitFrom(Tail(s), cur, TRUE)
              ELSE <<cur>> \o SplitFrom(Tail(s), <<>>, TRUE)
         ELSE SplitFrom(Tail(s), Append(cur, Head(s)), FALSE)

split(s) == SplitFrom(s, <<>>, FALSE)

\* String.prototype.includes
includes(hay, w) ==
    \E i \in 0..(Len(hay) - Len(w)) : SubSeq(hay, i + 1, i + Len(w)) = w

\* String.prototype.startsWith
startsWith(s, prefix) ==
    Len(prefix) <= Len(s) /\ SubSeq(s, 1, Len(prefix)) = prefix

\* Array.prototype.join(" ")
RECURSIVE join(_)
join(ss) ==
    IF ss = <<>> THEN <<>>
    ELSE IF Len(ss) = 1 THEN ss[1]
    ELSE ss[1] \o Space \o join(Tail(ss))

\* Array.prototype.slice(from, to) for 0 <= from <= to
slice(s, from, to) ==
    SubSeq(s, (IF from < Len(s) THEN from ELSE Len(s)) + 1,
              IF to < Len(s) THEN to ELSE Len(s))

\* a.localeCompare(b) < 0 for two ISO timestamps: strings of digits of one
\* length, compared character by character
RECURSIVE LexLess(_, _)
LexLess(a, b) ==
    IF b = <<>> THEN FALSE
    ELSE IF a = <<>> THEN TRUE
    ELSE IF Head(a) # Head(b) THEN Head(a) < Head(b)
    ELSE LexLess(Tail(a), Tail(b))

\* Array.prototype.sort with a comparator that orders the keys of the
\* elements: a stable sort (ECMAScript 2019), here by insertion
RECURSIVE InsertByKey(_, _)
InsertByKey(sorted, x) ==
    IF sorted = <<>> THEN <<x>>
    ELSE IF LexLess(x.key, Head(sorted).key) THEN <<x>> \o sorted
    ELSE <<Head(sorted)>> \o InsertByKey(Tail(sorted), x)

RECURSIVE SortByKey(_)
SortByKey(s) ==
    IF s = <<>> THEN <<>>
    ELSE InsertByKey(SortByKey(SubSeq(s, 1, Len(s) - 1)), s[Len(s)])

SeqsUpTo(S, n) == UNION {[1..k -> S] : k \in 0..n}

Range(s) == {s[i] : i \in 1..Len(s)}

\* EthccTalk: start is <<day, hour>>, the digits of the ISO timestamp
Talk(id, title, track, speakersData, description, start, type) ==
    [id |-> id, title |-> title, track |-> track,
     speakersData |-> speakersData, description |-> description,
     start |-> start, type |-> type]

Speaker(displayName, organization) ==
    [displayName |-> displayName, organization |-> organization]

\* the programme the lists of talks are drawn from
Programme ==
    { Talk("t1", ZkP, defi, <<>>, zkp \o Space \o dao, <<1, 2>>, "Talk"),
      Talk("t2", defi, zkp, <<Speaker(mev, dao)>>, <<>>, <<1, 1>>, "Talk"),
      Talk("t3", mev, dao, <<>>, DeFi, <<2, 1>>, "Workshop"),
      Talk("t4", dao \o Space \o zk, mev, <<Speaker(zkp, defi)>>, <<>>,
           <<1, 1>>, "Demo"),
      Talk("t5", defi, <<>>, <<>>, <<>>, <<1, 3>>, "Custom") }

TalkLists ==
    {l \in SeqsUpTo(Programme, MaxTalks) :
        \A i, j \in 1..Len(l) : i # j => l[i].id # l[j].id}

QueryWords == {zkp, ZkP, defi, zk}

Separators == {Space, <<" ", "\t">>}

Pads == {<<>>, Space}

RECURSIVE Joined(_, _)
Joined(ws, sep) ==
    IF ws = <<>> THEN <<>>
    ELSE IF Len(ws) = 1 THEN ws[1]
    ELSE ws[1] \o sep \o Joined(Tail(ws), sep)

\* the queries: words in either case, separated by one or two whitespace
\* characters, with or without a leading blank
Queries ==
    {pad \o Joined(ws, sep) :
        pad \in Pads, ws \in SeqsUpTo(QueryWords, MaxQueryWords),
        sep \in Separators}

REAL_TALK_TYPES == {"Talk", "Workshop", "Demo"}

filterRealTalks(talks) ==
    SelectSeq(talks, LAMBDA t : t.type \in REAL_TALK_TYPES)

\* the words of a query as searchTalksLocal reads them, without lowering
\* the case first
QueryTokensCaseSensitive(query) ==
    SelectSeq(split(query), LAMBDA w : Len(w) >= 3)

\* query.toLowerCase().split(/\s+/).filter((w) => w.length >= 3)
QueryTokens(query) ==
    SelectSeq(split(toLowerCase(query)), LAMBDA w : Len(w) >= 3)

\* the speakers string: "displayName organization" of each speaker, joined
SpeakersOf(t) ==
    toLowerCase(join([i \in 1..Len(t.speakersData) |->
        t.speakersData[i].displayName \o Space
            \o t.speakersData[i].organization]))

\* what one word adds to the score of a talk: the first field that
\* contains it decides
WordScore(t, w) ==
    IF includes(toLowerCase(t.title), w) THEN 3
    ELSE IF includes(toLowerCase(t.track), w) THEN 2
    ELSE IF includes(SpeakersOf(t), w) THEN 2
    ELSE IF includes(toLowerCase(t.description), w) THEN 1
    ELSE 0

\* the loop over the words
RECURSIVE Score(_, _)
Score(t, words) ==
    IF words = <<>> THEN 0
    ELSE WordScore(t, Head(words)) + Score(t, Tail(words))

\* the scored talks, those of score 0 dropped, sorted by falling score
\* and then by start
Ranked(talks, words) ==
    SortByKey(SelectSeq(
        [i \in 1..Len(talks) |->
            [talk |-> talks[i], score |-> Score(talks[i], words),
             key |-> <<0 - Score(talks[i], words)>> \o talks[i].start]],
        LAMBDA x : x.score > 0))

searchTalksLocal(talks, query) ==
    LET words == QueryTokens(query)
        scored == Ranked(talks, words)
    IN  IF words = <<>> THEN talks
        ELSE [i \in 1..Len(scored) |-> scored[i].talk]

NoCall == [fn |-> "none"]

\* searchTalksLocal is applied to some list of talks and some query
CallSearchTalksLocal ==
    /\ call = NoCall
    /\ \E talks \in TalkLists : \E query \in Queries :
          call' = [fn |-> "searchTalksLocal", talks |-> talks,
                   query |-> query, out |-> searchTalksLocal(talks, query)]
    /\ UNCHANGED <<messages, state, runs, turn, nTurns, live>>

\* the interests of a search: one of two words, one of one word, one, zk,
\* with no word of 3 or more characters
Interests == {zkp \o Space \o DeFi, mev, dao, zk}

InterestLists == SeqsUpTo(Interests, MaxAsked) \ {<<>>}

\* the per-interest pass: the score of talk t for one interest
InterestScore(t, interest) == Score(t, QueryTokens(interest))

\* the interests, in the order asked, for which talk t scored above 0
MatchedInterests(t, interests) ==
    SelectSeq(interests, LAMBDA i : InterestScore(t, i) > 0)

\* the number of distinct interests for which talk t scored above 0
MatchCount(t, interests) == Cardinality(Range(MatchedInterests(t, interests)))

\* the score of talk t summed over the interests
RECURSIVE SummedScore(_, _)
SummedScore(t, interests) ==
    IF interests = <<>> THEN 0
    ELSE InterestScore(t, Head(interests)) + SummedScore(t, Tail(interests))

\* the companion accessor: talk id -> the interests that matched the talk
getInterestMatches(talks, interests) ==
    [id \in {t.id : t \in {u \in Range(talks) :
                              MatchedInterests(u, interests) # <<>>}} |->
        MatchedInterests(CHOOSE t \in Range(talks) : t.id = id, interests)]

\* the union of the results of searchTalksLocal for each interest
InterestUnion(talks, interests) ==
    LET found == UNION {Range(searchTalksLocal(talks, interests[k])) :
                            k \in 1..Len(interests)}
    IN  SelectSeq(talks, LAMBDA t : t \in found)

\* searchByInterests that ranks by the summed score before the count
searchByInterestsByScore(talks, interests) ==
    LET union == InterestUnion(talks, interests)
        keyed == [i \in 1..Len(union) |->
                    [talk |-> union[i],
                     key |-> <<0 - SummedScore(union[i], interests),
                               0 - MatchCount(union[i], interests)>>
                             \o union[i].start]]
        sorted == SortByKey(keyed)
    IN  [i \in 1..Len(sorted) |-> sorted[i].talk]

\* searchByInterests: the union, ranked by the count of interests matched,
\* then by the summed score, then by start
searchByInterests(talks, interests) ==
    LET union == InterestUnion(talks, interests)
        keyed == [i \in 1..Len(union) |->
                    [talk |-> union[i],
                     key |-> <<0 - MatchCount(union[i], interests),
                               0 - SummedScore(union[i], interests)>>
                             \o union[i].start]]
        sorted == SortByKey(keyed)
    IN  [i \in 1..Len(sorted) |-> sorted[i].talk]

\* searchByInterests and its accessor are applied to a list of talks and a
\* list of interests
CallSearchByInterests ==
    /\ call = NoCall
    /\ \E talks \in TalkLists : \E interests \in InterestLists :
          call' = [fn |-> "searchByInterests", talks |-> talks,
                   interests |-> interests,
                   out |-> searchByInterests(talks, interests),
                   matches |-> getInterestMatches(talks, interests)]
    /\ UNCHANGED <<messages, state, runs, turn, nTurns, live>>

filterByTrack(talks, track) ==
    SelectSeq(talks, LAMBDA t :
        includes(toLowerCase(t.track), toLowerCase(track)))

filterByDate(talks, date) ==
    SelectSeq(talks, LAMBDA t : startsWith(t.start, date))

\* formatTalkForAI: date is the part of start before the "T"
formatTalkForAI(t) ==
    [title |-> t.title, slug |-> t.id, track |-> t.track,
     date |-> SubSeq(t.start, 1, 1), start |-> t.start]

\* the arguments of a call of the search tool; the empty string stands for
\* an argument left out, which the tool reads the same way
ToolArgs ==
    [query : {<<>>, zkp, DeFi, zk},
     interests : {<<>>},
     track : {<<>>, DeFi},
     date : {<<>>, <<1>>},
     limit : 0..MaxLimit,
     offset : 0..MaxOffset]
    \cup
    [query : {<<>>},
     interests : {<<mev>>, <<zkp \o Space \o DeFi, mev>>, <<zk>>},
     track : {<<>>, DeFi},
     date : {<<>>, <<1>>},
     limit : 0..MaxLimit,
     offset : 0..MaxOffset]

\* the two strings the tool returns in place of a result record
NoInterestMatch == [sentinel |-> "No talks found matching your interests."]

NoCriteriaMatch == [sentinel |-> "No talks found matching your criteria."]

\* the talks left by the type, date and track filters
Filtered(fetched, args) ==
    LET real == filterRealTalks(fetched)
        dated == IF args.date # <<>> THEN filterByDate(real, args.date)
                 ELSE real
    IN  IF args.track # <<>> THEN filterByTrack(dated, args.track) ELSE dated

\* a tool that leaves the talks in the order the search returned them
SortByStartKeepsRanking(talks) == talks

\* talks.sort((a, b) => a.start.localeCompare(b.start))
SortByStart(talks) ==
    LET sorted == SortByKey([i \in 1..Len(talks) |->
                               [talk |-> talks[i], key |-> talks[i].start]])
    IN  [i \in 1..Len(sorted) |-> sorted[i].talk]

\* the talks the tool pages through
Matching(fetched, args) ==
    IF args.interests # <<>>
    THEN searchByInterests(Filtered(fetched, args), args.interests)
    ELSE SortByStart(IF args.query # <<>>
                     THEN searchTalksLocal(Filtered(fetched, args), args.query)
                     ELSE Filtered(fetched, args))

\* what searchTalks.execute returns
SearchTalksResult(fetched, args) ==
    LET matches == getInterestMatches(Filtered(fetched, args), args.interests)
        talks == Matching(fetched, args)
        paged == slice(talks, args.offset, args.offset + args.limit)
        results ==
            [i \in 1..Len(paged) |->
                IF args.interests # <<>>
                THEN [talk |-> formatTalkForAI(paged[i]),
                      matchedInterests |->
                          IF paged[i].id \in DOMAIN matches
                          THEN matches[paged[i].id] ELSE <<>>]
                ELSE [talk |-> formatTalkForAI(paged[i])]]
    IN  IF Len(results) > 0
        THEN [talks |-> results,
              totalMatches |-> Len(talks),
              showing |-> Len(results), offset |-> args.offset]
        ELSE IF args.interests # <<>> THEN NoInterestMatch
        ELSE NoCriteriaMatch

\* the reasoning engine calls the search tool
ExecuteSearchTalks ==
    /\ call = NoCall
    /\ \E fetched \in TalkLists : \E args \in ToolArgs :
          call' = [fn |-> "searchTalks", talks |-> fetched, args |-> args,
                   out |-> SearchTalksResult(fetched, args)]
    /\ UNCHANGED <<messages, state, runs, turn, nTurns, live>>

----------------------------------------------------------------------------
(* Specification *)

Init ==
    /\ messages = <<>>
    /\ state = <<>>
    /\ runs = <<>>
    /\ turn = Idle
    /\ nTurns = 0
    /\ call = NoCall
    /\ live = NoConnection

\* the steps of run(), for the r-th run
RunStep(r) ==
    \/ \E n \in 0..MaxTweets : \E u \in 0..n : ScrapeSucceeds(r, n, u)
    \/ \E c \in ScrapeFailures : ScrapeFails(r, c)
    \/ EarlyExit(r)
    \/ \E answer \in LLMAnswers : SummarizeSucceeds(r, answer)
    \/ \E c \in AllSummarizeFailures : SummarizeFails(r, c)
    \/ MergeAgentState(r)
    \/ ReportComplete(r)

Next ==
    \/ \E text \in UserTexts : ReceiveUserMessage(text)
    \/ OnChatMessage
    \/ SendReply
    \/ FinishReasoning
    \/ AbortReasoning
    \/ ClearHistory
    \/ \E r \in 1..MaxRuns : \E n \in 0..MaxTweets : \E u \in 0..n :
          ScrapeSucceeds(r, n, u)
    \/ \E r \in 1..MaxRuns : \E c \in ScrapeFailures : ScrapeFails(r, c)
    \/ \E r \in 1..MaxRuns : EarlyExit(r)
    \/ \E r \in 1..MaxRuns : \E answer \in LLMAnswers :
          SummarizeSucceeds(r, answer)
    \/ \E r \in 1..MaxRuns : \E c \in AllSummarizeFailures :
          SummarizeFails(r, c)
    \/ \E r \in 1..MaxRuns : MergeAgentState(r)
    \/ \E r \in 1..MaxRuns : ReportComplete(r)
    \/ \E r \in 1..MaxRuns : DeliverComplete(r)
    \/ \E r \in 1..MaxRuns : DeliverError(r)

Spec == Init /\ [][Next]_vars

\* The workflow engine keeps scheduling a run until run() returns or throws,
\* and reportComplete calls onWorkflowComplete before it returns.  No
\* fairness is assumed of onWorkflowError, which the engine does not call
\* reliably.
FairSpec ==
    /\ Spec
    /\ \A r \in 1..MaxRuns : WF_vars(RunStep(r))
    /\ \A r \in 1..MaxRuns : WF_vars(DeliverComplete(r))

\* a turn of the sessions of OverlapSpec: no injection attempt
ReceiveOverlapTurn(text) ==
    /\ ~text.inj
    /\ ReceiveTurn(text, MaxOverlapTurns)

\* Sessions in which runs overlap with one another and with chat turns:
\* up to MaxOverlapTurns turns, none of them an injection attempt, no step
\* attempt fails and the history is not cleared.  Every behaviour of
\* OverlapSpec is a behaviour of the program.
OverlapNext ==
    \/ \E text \in UserTexts : ReceiveOverlapTurn(text)
    \/ OnChatMessage
    \/ SendReply
    \/ FinishReasoning
    \/ \E r \in 1..MaxRuns : \E n \in 0..MaxTweets : \E u \in 0..n :
          ScrapeSucceeds(r, n, u)
    \/ \E r \in 1..MaxRuns : EarlyExit(r)
    \/ \E r \in 1..MaxRuns : \E answer \in LLMAnswers :
          SummarizeSucceeds(r, answer)
    \/ \E r \in 1..MaxRuns : MergeAgentState(r)
    \/ \E r \in 1..MaxRuns : ReportComplete(r)
    \/ \E r \in 1..MaxRuns : DeliverComplete(r)

OverlapSpec == Init /\ [][OverlapNext]_vars

\* a turn of the sessions of CascadeSpec
ReceiveCascadeTurn(text) == ReceiveTurn(text, MaxCascadeTurns)

\* Sessions whose turns may match any of the three handle patterns and no
\* injection pattern: up to MaxCascadeTurns turns, the runs started go
\* through their steps without a failure up to the merge of the profile.
\* Every behaviour of CascadeSpec is a behaviour of the program.
CascadeNext ==
    \/ \E text \in CascadeTexts : ReceiveCascadeTurn(text)
    \/ OnChatMessage
    \/ SendReply
    \/ FinishReasoning
    \/ \E r \in 1..MaxRuns : \E n \in 1..MaxTweets : ScrapeSucceeds(r, n, n)
    \/ \E r \in 1..MaxRuns : SummarizeSucceeds(r, "json")
    \/ \E r \in 1..MaxRuns : MergeAgentState(r)

CascadeSpec == Init /\ [][CascadeNext]_vars

\* a turn of the sessions of ProgressSpec: it names a handle
ReceiveProgressTurn(text) ==
    /\ ~text.inj
    /\ extractTwitterHandle(text) # ""
    /\ ReceiveTurn(text, MaxProgressTurns)

\* the state after construction, with a page connected
ProgressInit ==
    /\ messages = <<>>
    /\ state = <<>>
    /\ runs = <<>>
    /\ turn = Idle
    /\ nTurns = 0
    /\ call = NoCall
    /\ live = Connected

\* Sessions watched by a connected page from the outset: up to
\* MaxProgressTurns turns, each naming a handle, and the runs they start
\* going through their steps, attempts failing or not.  Every behaviour of
\* ProgressSpec is a behaviour of the program.
ProgressNext ==
    \/ \E text \in UserTexts : ReceiveProgressTurn(text)
    \/ OnChatMessage
    \/ SendReply
    \/ \E r \in 1..MaxRuns : \E n \in 0..MaxTweets : \E u \in 0..n :
          ScrapeSucceeds(r, n, u)
    \/ \E r \in 1..MaxRuns : \E c \in ScrapeFailures : ScrapeFails(r, c)
    \/ \E r \in 1..MaxRuns : EarlyExit(r)
    \/ \E r \in 1..MaxRuns : \E answer \in LLMAnswers :
          SummarizeSucceeds(r, answer)
    \/ \E r \in 1..MaxRuns : \E c \in AllSummarizeFailures :
          SummarizeFails(r, c)
    \/ \E r \in 1..MaxRuns : MergeAgentState(r)
    \/ \E r \in 1..MaxRuns : ReportComplete(r)

ProgressSpec == ProgressInit /\ [][ProgressNext]_vars

\* the call in hand returns
ReturnCall ==
    /\ call # NoCall
    /\ call' = NoCall
    /\ UNCHANGED <<messages, state, runs, turn, nTurns, live>>

\* The search helpers applied to every list of talks and every query
SearchNext ==
    \/ CallSearchTalksLocal
    \/ CallSearchByInterests
    \/ ExecuteSearchTalks
    \/ ReturnCall

SearchSpec == Init /\ [][SearchNext]_vars

----------------------------------------------------------------------------
(* Properties *)

\* the results a run can report: the typed failure of the early exit and
\* the profiles the summarize step can return
CompletionEvents ==
    {ErrorResult(h, NoTweetsError(h)) : h \in Handles}
    \cup {ProfileOf(h, answer, n, n) :
            h \in Handles, answer \in LLMAnswers, n \in 1..MaxTweets}

\* the identifier onWorkflowComplete derives from a result
EventId(data) ==
    IF "error" \in DOMAIN data
    THEN ErrorMsgId(data.handle)
    ELSE ProfileMsgId(data.handle)

\* the scrape step of run r has returned, and returned zero tweets
ScrapedZero(r) ==
    /\ runs[r].pc # "scrape"
    /\ runs[r].failedStep # "scrape-tweets"
    /\ runs[r].tweetCount = 0

\* a step of run r found zero usable input and ended the run on it: the
\* scrape returned zero tweets, or the summarize step was given up on
\* finding no tweet with usable text
FoundNothingUsable(r) ==
    \/ ScrapedZero(r)
    \/ runs[r].cause = NoUsableError(runs[r].handle)

\* C1: onWorkflowComplete is idempotent under duplicate delivery.  In every
\* reachable session state and for every completion event (typed failure or
\* success profile), handling the event twice gives the message list that
\* handling it once gives, and that list holds exactly one message with
\* the identifier derived from the event.
C1_CompleteIdempotent ==
    \A data \in CompletionEvents :
        LET once == OnWorkflowComplete(messages, data)
            twice == OnWorkflowComplete(once, data)
        IN  /\ twice = once
            /\ Count(once, EventId(data)) = 1

\* a run's result was delivered twice and one message was appended for it,
\* which is in the history once
C1_Witness ==
    \E r \in RunIds :
        /\ runs[r].delivered = 2
        /\ runs[r].appended = 1
        /\ Count(messages, EventId(runs[r].result[1])) = 1

\* C2: a step that fails all of its attempts ends the run with a failure
\* value equal to the last attempt's cause, reported through reportComplete
\* exactly once, and run() is not left by an exception.
C2_ExhaustedStepReportsFailure ==
    \A r \in RunIds :
        runs[r].failedStep # "" =>
            /\ runs[r].pc # "threw"
            /\ runs[r].reported = 1
            /\ runs[r].result = <<ErrorResult(runs[r].handle, runs[r].cause)>>

\* C3: the terminal result of every run becomes visible in the message
\* history exactly once: once the result has been delivered, a message has
\* been appended for it (never zero), and the history never holds more than
\* one message with its identifier.
C3_ResultVisibleExactlyOnce ==
    \A r \in RunIds :
        runs[r].delivered >= 1 =>
            /\ runs[r].appended >= 1
            /\ Count(messages, EventId(runs[r].result[1])) <= 1

\* C4: in every reachable state no two messages of the history share an
\* identifier.
C4_UniqueIds ==
    \A i, j \in 1..Len(messages) :
        i # j => messages[i].id # messages[j].id

\* the history holds a user message, a failure message appended by
\* onWorkflowComplete for a run delivered twice, and a failure message
\* appended by onWorkflowError
C4_Witness ==
    /\ \E i \in 1..Len(messages) : messages[i].role = "user"
    /\ \E r \in RunIds :
          /\ runs[r].delivered = 2
          /\ "error" \in DOMAIN runs[r].result[1]
          /\ HasId(messages, ErrorMsgId(runs[r].handle))
    /\ \E r \in RunIds :
          /\ runs[r].errorCalls >= 1
          /\ HasId(messages, ErrorMsgId(InstanceId(r)))

\* C5: a run whose step finds zero usable input (no tweet scraped, or no
\* scraped tweet with usable text) ends through reportComplete with a typed
\* failure value, not through a thrown exception.
C5_NoUsableInputReportsFailure ==
    \A r \in RunIds :
        (FoundNothingUsable(r) /\ Terminated(r)) =>
            /\ runs[r].pc = "done"
            /\ runs[r].reported = 1
            /\ runs[r].result # <<>>
            /\ "error" \in DOMAIN runs[r].result[1]

\* C6: when the scrape step of a run for subject S returns zero items, the
\* run ends with a typed failure, its summarize step is never attempted, no
\* profile is merged, and each delivery of the failure leaves exactly one
\* failure message with the identifier derived from S in the history.
C6_ZeroItems ==
    /\ [](\A r \in RunIds :
            ScrapedZero(r) =>
                /\ runs[r].pc \in {"exit", "done"}
                /\ runs[r].attempts = 0
                /\ runs[r].profile = <<>>
                /\ ~runs[r].merged
                /\ runs[r].pc = "done" =>
                      /\ runs[r].reported = 1
                      /\ runs[r].result =
                            <<ErrorResult(runs[r].handle,
                                          NoTweetsError(runs[r].handle))>>)
    /\ [][\A r \in RunIds :
            (ScrapedZero(r) /\ runs'[r].delivered = runs[r].delivered + 1) =>
                /\ Count(messages', ErrorMsgId(runs[r].handle)) = 1
                /\ state' = state]_vars

\* the failure of a run whose scrape returned zero items has been delivered
\* and its failure message is in the history
C6_Witness ==
    \E r \in RunIds :
        /\ ScrapedZero(r)
        /\ runs[r].delivered >= 1
        /\ runs[r].appended = 1
        /\ Count(messages, ErrorMsgId(runs[r].handle)) = 1

\* C7: every run that is started eventually delivers a terminal event to
\* the completion path (onWorkflowComplete).
C7_EveryRunDelivers ==
    \A r \in 1..MaxRuns :
        (r \in RunIds) ~> (r \in RunIds /\ runs[r].delivered >= 1)

\* C8: reportComplete is called at most once for a run, and a reported
\* result never changes afterwards.
C8_ReportedOnce ==
    /\ [](\A r \in RunIds :
            /\ runs[r].reported <= 1
            /\ runs[r].reported = 1 <=> runs[r].result # <<>>)
    /\ [][\A r \in RunIds :
            runs[r].result # <<>> => runs'[r].result = runs[r].result]_vars

\* one run has reported its profile after merging it and another has
\* reported the failure of the early exit
C8_Witness ==
    /\ \E r \in RunIds :
          runs[r].pc = "done" /\ runs[r].merged /\ runs[r].reported = 1
    /\ \E r \in RunIds :
          runs[r].pc = "done" /\ ScrapedZero(r) /\ runs[r].reported = 1

\* C9: the attempts made of a step never exceed its ceiling, 3 for the
\* scrape step and 2 for the summarize step; an attempt that times out
\* counts, so a step whose attempts all time out is given up after exactly
\* that many attempts.
C9_AttemptCeiling ==
    \A r \in RunIds :
        /\ runs[r].pc = "scrape" => runs[r].attempts < 3
        /\ runs[r].pc = "summarize" => runs[r].attempts < 2
        /\ runs[r].failedStep = "scrape-tweets" => runs[r].attempts = 3
        /\ runs[r].failedStep = "summarize-interests" => runs[r].attempts = 2

\* one run gave up its scrape step and another its summarize step, each
\* after a last attempt that timed out
C9_Witness ==
    /\ \E r \in RunIds :
          /\ runs[r].failedStep = "scrape-tweets"
          /\ runs[r].cause = "timeout"
          /\ runs[r].attempts = 3
    /\ \E r \in RunIds :
          /\ runs[r].failedStep = "summarize-interests"
          /\ runs[r].cause = "timeout"
          /\ runs[r].attempts = 2

\* C10: a step whose last allowed attempt succeeds after the earlier ones
\* failed is a step success: run() continues after the step with that
\* attempt's value (the early exit exactly when it holds zero tweets, the
\* profile built for the run's handle and tweet count), and no failure
\* value, thrown error or message has been produced for the run.
C10_LastAttemptSucceeds ==
    \A r \in RunIds :
        runs[r].lastChance =>
            /\ runs[r].pc \in {"exit", "summarize", "merge"}
            /\ runs[r].pc = "exit" <=> runs[r].tweetCount = 0
            /\ runs[r].pc = "merge" =>
                  /\ runs[r].profile # <<>>
                  /\ runs[r].profile[1].handle = runs[r].handle
                  /\ runs[r].profile[1].tweetCount = runs[r].tweetCount
            /\ runs[r].failedStep = ""
            /\ runs[r].cause = ""
            /\ runs[r].result = <<>>
            /\ runs[r].reported = 0
            /\ runs[r].appended = 0

\* one run is past a scrape step that succeeded on its third attempt and
\* stands in the summarize step; another is past a summarize step that
\* succeeded on its second attempt
C10_Witness ==
    /\ \E r \in RunIds :
          runs[r].lastChance /\ runs[r].pc = "summarize" /\ runs[r].tweetCount > 0
    /\ \E r \in RunIds :
          runs[r].lastChance /\ runs[r].pc = "merge"

\* onChatMessage returns in this step: the turn leaves "received"
HandlesTurn == turn.phase = "received" /\ turn'.phase # "received"

RefusalReply == [kind |-> "refusal"]

AckReply(handle) == [kind |-> "ack", handle |-> handle]

\* C11: a turn whose text matches an injection pattern is answered with the
\* fixed refusal: onChatMessage returns the refusal as a plaintext reply, the
\* model is not started for the turn, no run is started and the profile is
\* left as it was, also when the text names a handle.
C11_InjectionRefused ==
    [][(HandlesTurn /\ UserTextOf(messages).inj) =>
          /\ turn' = [phase |-> "reply", reply |-> RefusalReply]
          /\ runs' = runs
          /\ state' = state]_vars

\* the refusal is being returned for a text that matches an injection
\* pattern and names a handle, while a profile is in the state
C11_Witness ==
    /\ turn.phase = "reply"
    /\ turn.reply = RefusalReply
    /\ UserTextOf(messages).inj
    /\ extractTwitterHandle(UserTextOf(messages)) # ""
    /\ state # <<>>

\* C12: a turn whose text is not flagged as an injection and from which a
\* handle is extracted starts exactly one run, for that handle, and is
\* answered with the fixed acknowledgement; the model is not started for
\* the turn.
C12_HandleStartsOneRun ==
    [][(HandlesTurn /\ ~UserTextOf(messages).inj
                    /\ extractTwitterHandle(UserTextOf(messages)) # "") =>
          /\ Len(runs') = Len(runs) + 1
          /\ SubSeq(runs', 1, Len(runs)) = runs
          /\ Last(runs').handle = extractTwitterHandle(UserTextOf(messages))
          /\ Last(runs').pc = "scrape"
          /\ Last(runs').attempts = 0
          /\ turn' = [phase |-> "reply",
                      reply |-> AckReply(
                          extractTwitterHandle(UserTextOf(messages)))]]_vars

\* the acknowledgement is being returned for the second run of the session,
\* started for another handle than the first
C12_Witness ==
    /\ turn.phase = "reply"
    /\ turn.reply.kind = "ack"
    /\ Len(runs) = 2
    /\ runs[2].handle = turn.reply.handle
    /\ runs[1].handle # runs[2].handle
    /\ runs[2].pc = "scrape"

\* run r has been started and run() has neither returned nor thrown
InFlight(r) == r \in RunIds /\ ~Terminated(r)

\* C13: a reasoning turn composed while the run started last, for subject
\* S, is in flight is given no profile of a subject other than S, also when
\* an earlier run for another subject was still outstanding when the run
\* for S was started.
C13_NoStaleProfileMidRun ==
    (turn.phase = "reasoning" /\ turn.profile # <<>> /\ InFlight(Len(runs))) =>
        turn.profile[1].handle = Last(runs).handle

\* run r's merge is applied in this step
MergeApplied(r) == r \in RunIds /\ ~runs[r].merged /\ runs'[r].merged

\* C14: the state holds at most one profile and it is written wholesale: a
\* stored profile is, in all its fields, the profile of one run that has
\* merged; a merge leaves exactly the merging run's profile in the state;
\* and the state changes only by a merge or by being cleared, so after two
\* runs have merged it is the profile of the run whose merge came last.
C14_ProfileWholesale ==
    /\ [](/\ Len(state) <= 1
          /\ state # <<>> =>
                \E r \in RunIds : runs[r].merged /\ state = runs[r].profile)
    /\ [][\A r \in 1..MaxRuns : MergeApplied(r) => state' = runs[r].profile]_vars
    /\ [][state' # state =>
            (state' = <<>> \/ \E r \in 1..MaxRuns : MergeApplied(r))]_vars

\* two runs for different subjects, whose profiles differ in topics and
\* summary too, have both merged, and the state holds the profile of the
\* run started first: its merge came last
C14_Witness ==
    /\ Len(runs) = 2
    /\ runs[1].merged /\ runs[2].merged
    /\ runs[1].handle # runs[2].handle
    /\ runs[1].profile[1].interests # runs[2].profile[1].interests
    /\ state = runs[1].profile

\* C15: a user turn never waits for a run: whatever the runs are doing, a
\* turn can be received when the session is idle, onChatMessage can return
\* once a turn is received, and the reply or the model's answer can be
\* delivered; and the step that starts a run returns the acknowledgement
\* with the run still at the start of its first step.
C15_TurnsNeverWait ==
    /\ [](/\ (turn.phase = "idle" /\ nTurns < MaxTurns) =>
                ENABLED (\E text \in UserTexts :
                            /\ extractTwitterHandle(text) = ""
                            /\ ReceiveUserMessage(text))
          /\ turn.phase = "received" => ENABLED OnChatMessage
          /\ turn.phase = "reply" => ENABLED SendReply
          /\ turn.phase = "reasoning" => ENABLED FinishReasoning)
    /\ [][(HandlesTurn /\ Len(runs') > Len(runs)) =>
            /\ turn'.phase = "reply"
            /\ Last(runs').pc = "scrape"
            /\ Last(runs').attempts = 0
            /\ Last(runs').result = <<>>]_vars

\* the second turn of the session, a question, has been answered by the
\* model while the run started in the first turn has not finished its
\* first step, and the acknowledgement of the first turn is in the history
C15_Witness ==
    /\ Len(runs) = 1
    /\ runs[1].pc = "scrape"
    /\ HasId(messages, GeneratedId("a", 1))
    /\ \E i \in 1..Len(messages) :
          /\ messages[i].id = GeneratedId("a", 2)
          /\ messages[i].text.kind = "llm"

\* the session is idle after an abort that came while run r was in flight
AbortedDuring(r) ==
    /\ turn.phase = "idle"
    /\ "aborted" \in DOMAIN turn
    /\ r \in turn.aborted

\* The abort of a reasoning turn ends that turn and nothing else: the step
\* changes no run, no profile and no message; and every run that was in
\* flight at the abort goes on through its steps to the end of run(), where
\* it delivers the result it reports or, after a step that exhausted its
\* retries, has thrown.
AbortLeavesRuns ==
    /\ [][(turn.phase = "reasoning" /\ "aborted" \in DOMAIN turn') =>
            /\ runs' = runs
            /\ state' = state
            /\ messages' = messages]_vars
    /\ \A r \in 1..MaxRuns :
          AbortedDuring(r) ~>
              (r \in RunIds /\ (runs[r].delivered >= 1 \/ runs[r].pc = "threw"))

\* after an abort that came while a run was in its scrape or summarize
\* step, the run has reported its result and the result has been delivered
AbortThenDelivered ==
    \E r \in RunIds :
        /\ AbortedDuring(r)
        /\ runs[r].pc = "done"
        /\ runs[r].delivered >= 1
        /\ runs[r].appended = 1

\* C16: an abort of a reasoning turn cancels only that turn's request: the
\* step changes no run, no profile and no message, and every run that was
\* in flight at the abort goes on through its steps and delivers its
\* terminal event to onWorkflowComplete.
C16_AbortedRunsStillDeliver ==
    /\ [][(turn.phase = "reasoning" /\ "aborted" \in DOMAIN turn') =>
            /\ runs' = runs
            /\ state' = state
            /\ messages' = messages]_vars
    /\ \A r \in 1..MaxRuns :
          AbortedDuring(r) ~> (r \in RunIds /\ runs[r].delivered >= 1)

\* run r has reported a profile
ReportedSuccess(r) ==
    /\ r \in RunIds
    /\ runs[r].result # <<>>
    /\ "error" \notin DOMAIN runs[r].result[1]

ProfileFields == {"handle", "interests", "summary", "tweetCount"}

\* C17: a run merges its profile before its success is delivered: a run
\* that has reported a profile has merged that profile, so every delivery
\* of a success to onWorkflowComplete finds the run's merge applied; and the
\* state never holds a profile with a field missing.
C17_MergedBeforeDelivery ==
    /\ [](\A r \in RunIds :
            ReportedSuccess(r) =>
                runs[r].merged /\ runs[r].result = runs[r].profile)
    /\ [][\A r \in 1..MaxRuns :
            (ReportedSuccess(r) /\ runs'[r].delivered = runs[r].delivered + 1) =>
                runs[r].merged]_vars
    /\ [](state # <<>> => DOMAIN state[1] = ProfileFields)

\* a run's success has been delivered and its message appended while the
\* state holds the profile the run merged
C17_Witness ==
    \E r \in RunIds :
        /\ ReportedSuccess(r)
        /\ runs[r].delivered >= 1
        /\ HasId(messages, ProfileMsgId(runs[r].handle))
        /\ runs[r].merged
        /\ state = runs[r].result

\* the positions in the history of the failure messages about subject h:
\* the one onWorkflowComplete writes for a failure result of h, and those
\* onWorkflowError writes for runs started for h
FailureMsgsOf(h) ==
    {i \in 1..Len(messages) :
        /\ messages[i].text.kind = "error"
        /\ \/ messages[i].id = ErrorMsgId(h)
           \/ \E r \in RunIds : /\ runs[r].handle = h
                                 /\ messages[i].id = ErrorMsgId(InstanceId(r))}

\* C18: the history holds at most one failure message per subject,
\* whichever path reported the failure (the early exit through
\* onWorkflowComplete, or exhausted retries through onWorkflowError) and
\* however many runs for the subject have failed.
C18_OneFailureMessagePerSubject ==
    \A h \in Handles : Cardinality(FailureMsgsOf(h)) <= 1

\* onWorkflowComplete is called for run r in this step
CompleteDelivered(r) ==
    r \in RunIds /\ runs'[r].delivered = runs[r].delivered + 1

\* list `after` is list `before` with at most one message appended
AppendsOnly(before, after) ==
    /\ Len(after) >= Len(before)
    /\ Len(after) <= Len(before) + 1
    /\ SubSeq(after, 1, Len(before)) = before

\* C19: onWorkflowComplete only appends: in every reachable state of the
\* session and for every result, the list after the call is the list before
\* it with at most one message added at the end; every delivery of a run's
\* result leaves the earlier messages in place, unchanged and in order.
C19_CompleteOnlyAppends ==
    /\ [](\A data \in CompletionEvents :
            AppendsOnly(messages, OnWorkflowComplete(messages, data)))
    /\ [][\A r \in 1..MaxRuns :
            CompleteDelivered(r) => AppendsOnly(messages, messages')]_vars

\* the result of the first run was delivered after the history had been
\* cleared and a second turn had started a second run: its message stands
\* at the end, behind the later turn's messages
C19_Witness ==
    /\ Len(runs) = 2
    /\ runs[1].delivered >= 1 /\ runs[1].appended = 1
    /\ Len(messages) >= 3
    /\ messages[1].id = GeneratedId("u", 2)
    /\ messages[2].id = GeneratedId("a", 2)
    /\ Last(messages).id = EventId(runs[1].result[1])

\* the history has been cleared after every merge: each run that merged
\* had its profile message appended (which comes after its merge), and the
\* message is gone, which only a clear does
ClearedSinceMerges ==
    \A r \in RunIds :
        runs[r].merged =>
            /\ runs[r].appended >= 1
            /\ ~HasId(messages, ProfileMsgId(runs[r].handle))

\* the history holds nothing but the user message of the turn in progress:
\* it was cleared before the turn came in
OnlyThisTurn ==
    /\ Len(messages) = 1
    /\ messages[1].id = GeneratedId("u", nTurns)

\* C20: after the user's clear the state holds no profile, so a reasoning
\* turn handled after the clear and before any run has merged again is
\* composed without a profile block.
C20_NoProfileAfterClear ==
    [][(/\ HandlesTurn /\ turn'.phase = "reasoning"
        /\ OnlyThisTurn /\ ClearedSinceMerges) =>
          turn'.profile = <<>>]_vars

ErrorDelivered(r) ==
    r \in RunIds /\ runs'[r].errorCalls = runs[r].errorCalls + 1

C22_MalformedAnswerFallsBack ==
    \A r \in RunIds :
        runs[r].failedStep = "summarize-interests" => runs[r].cause # SliceError

\* a run whose model response was malformed has merged and reported the
\* fallback profile for its handle
FallbackReported ==
    \E r \in RunIds :
        /\ ReportedSuccess(r)
        /\ runs[r].result[1].interests = FallbackParsed(runs[r].handle).interests
        /\ runs[r].result[1].summary = FallbackParsed(runs[r].handle).summary
        /\ runs[r].result[1].handle = runs[r].handle

\* the call in hand is one of searchTalksLocal
ByQuery == call.fn = "searchTalksLocal"

\* talk t holds word w in its title, its track, the names and organizations
\* of its speakers or its description, whatever the case of the letters
HoldsWord(t, w) ==
    \/ includes(toLowerCase(t.title), w)
    \/ includes(toLowerCase(t.track), w)
    \/ \E i \in 1..Len(t.speakersData) :
          \/ includes(toLowerCase(t.speakersData[i].displayName), w)
          \/ includes(toLowerCase(t.speakersData[i].organization), w)
    \/ includes(toLowerCase(t.description), w)

\* C23: every talk searchTalksLocal returns holds at least one word of the
\* query of 3 or more characters in one of its fields, also for a query
\* that has no such word.
C23_NoZeroScoreItem ==
    ByQuery =>
        \A i \in 1..Len(call.out) :
            \E w \in Range(QueryTokens(call.query)) : HoldsWord(call.out[i], w)

\* the score of a returned talk under the query of the call
OutScore(i) == Score(call.out[i], QueryTokens(call.query))

\* the result of the call is the reference ranking of its talks
IsReferenceRanking ==
    /\ \A i \in 1..Len(call.talks) :
          Score(call.talks[i], QueryTokens(call.query))
              <= 3 * Len(QueryTokens(call.query))
    /\ Range(call.out) =
          {t \in Range(call.talks) : Score(t, QueryTokens(call.query)) > 0}
    /\ \A i, j \in 1..Len(call.out) : i # j => call.out[i] # call.out[j]
    /\ \A i, j \in 1..Len(call.out) :
          i < j =>
              \/ OutScore(i) > OutScore(j)
              \/ /\ OutScore(i) = OutScore(j)
                 /\ ~LexLess(call.out[j].start, call.out[i].start)

\* C24: searchTalksLocal equals the reference ranking: no score exceeds 3
\* times the number of words, the result is exactly the talks of score
\* above 0, each once, ordered by falling score and, among equal scores,
\* by rising start.
C24_ReferenceRanking == ByQuery => IsReferenceRanking

\* the same, for the queries that have a word of 3 or more characters
RankingWhenTokens ==
    (ByQuery /\ QueryTokens(call.query) # <<>>) => IsReferenceRanking

\* two talks of equal score and equal start are ranked, a word found in two
\* fields of a talk counted once
RankedTie ==
    /\ ByQuery
    /\ Len(call.out) = 3
    /\ OutScore(1) > OutScore(2)
    /\ OutScore(2) = OutScore(3)
    /\ call.out[2].start = call.out[3].start

\* every maximal run of whitespace of s replaced by one blank
RECURSIVE Squeezed(_)
Squeezed(s) ==
    IF s = <<>> THEN <<>>
    ELSE IF Head(s) \in Whitespace
         THEN IF Len(s) > 1 /\ s[2] \in Whitespace
              THEN Squeezed(Tail(s))
              ELSE Space \o Squeezed(Tail(s))
         ELSE <<Head(s)>> \o Squeezed(Tail(s))

\* q1 and q2 differ in the case of their letters and in the amount of
\* whitespace between their words at most
SameButCaseAndSpacing(q1, q2) ==
    Squeezed(toLowerCase(q1)) = Squeezed(toLowerCase(q2))

\* C25: searchTalksLocal returns the same talks in the same order for two
\* queries that differ only in the case of their letters or in the amount
\* of whitespace between their words.
C25_CaseAndSpacingIgnored ==
    ByQuery =>
        \A q \in Queries :
            SameButCaseAndSpacing(call.query, q) =>
                searchTalksLocal(call.talks, q) = call.out

\* a query of two words, one with capitals, two whitespace characters
\* between them, has found talks, and so has its plain spelling
C25_Witness ==
    /\ ByQuery
    /\ call.query = ZkP \o <<" ", "\t">> \o defi
    /\ Len(call.out) >= 2
    /\ searchTalksLocal(call.talks, zkp \o Space \o defi) = call.out

\* the call in hand is one of searchByInterests with its accessor
ByInterests == call.fn = "searchByInterests"

\* the talk at place i of the result scored above 0 for the interest
OutMatches(i, interest) == InterestScore(call.out[i], interest) > 0

\* C26: asked two interests, searchByInterests puts no talk that scored
\* above 0 for only one of them before a talk that scored above 0 for both,
\* whatever the scores are.
C26_BothAboveOne ==
    (ByInterests /\ Len(call.interests) = 2) =>
        \A a, b \in 1..Len(call.out) :
            ( /\ OutMatches(a, call.interests[1])
              /\ OutMatches(a, call.interests[2])
              /\ OutMatches(b, call.interests[1])
                    # OutMatches(b, call.interests[2]) ) => a < b

\* a talk that matched both interests is ranked first although the talk
\* after it, which matched one, has the higher summed score
C26_Witness ==
    /\ ByInterests
    /\ Len(call.interests) = 2
    /\ Len(call.out) >= 2
    /\ OutMatches(1, call.interests[1]) /\ OutMatches(1, call.interests[2])
    /\ OutMatches(2, call.interests[1]) # OutMatches(2, call.interests[2])
    /\ SummedScore(call.out[1], call.interests)
          < SummedScore(call.out[2], call.interests)

\* the interests the accessor gives for a talk, none if it has no entry
MatchesOf(t) ==
    IF t.id \in DOMAIN call.matches THEN Range(call.matches[t.id]) ELSE {}

\* C27: a talk is in the result of searchByInterests exactly if it scored
\* above 0 for at least one interest, and the accessor gives for each talk
\* of the result exactly the interests for which it scored above 0, also
\* when an interest has no word of 3 or more characters.
C27_ResultIsTheMatched ==
    ByInterests =>
        /\ \A t \in Range(call.talks) :
              t \in Range(call.out) <=>
                  \E i \in Range(call.interests) : InterestScore(t, i) > 0
        /\ \A t \in Range(call.out) :
              MatchesOf(t) =
                  {i \in Range(call.interests) : InterestScore(t, i) > 0}

\* the same, when every interest has a word of 3 or more characters
MatchedWhenTokens ==
    (ByInterests /\ \A i \in Range(call.interests) : QueryTokens(i) # <<>>)
        => /\ \A t \in Range(call.talks) :
                 t \in Range(call.out) <=>
                     \E i \in Range(call.interests) : InterestScore(t, i) > 0
           /\ \A t \in Range(call.out) :
                 MatchesOf(t) =
                     {i \in Range(call.interests) : InterestScore(t, i) > 0}

\* the call in hand is one of the search tool
ByTool == call.fn = "searchTalks"

\* the tool returned a sentinel string
IsSentinel == "sentinel" \in DOMAIN call.out

\* C28: the search tool returns the no-results sentinel exactly when no
\* talk matches the filters of the call; when a talk matches it returns a
\* record with the number of matching talks, for every limit and offset.
C28_SentinelIffNoMatch ==
    ByTool =>
        /\ IsSentinel <=> Matching(call.talks, call.args) = <<>>
        /\ Matching(call.talks, call.args) # <<>> =>
              /\ ~IsSentinel
              /\ call.out.totalMatches = Len(Matching(call.talks, call.args))

\* the same, for the pages that hold a talk
RecordWhenPageHoldsTalk ==
    (ByTool /\ call.args.limit > 0
        /\ call.args.offset < Len(Matching(call.talks, call.args)))
        => /\ ~IsSentinel
           /\ call.out.totalMatches = Len(Matching(call.talks, call.args))
           /\ call.out.showing = Len(call.out.talks)

\* C29: the handle is extracted by an ordered cascade in which the first
\* pattern that matches wins: the capture of the URL pattern whenever it
\* matches, otherwise the capture of the keyword phrasing, otherwise the
\* capture of the correction phrasing.  A turn that is not flagged starts a
\* run, for that capture, exactly if some pattern matches; with no match it
\* goes to the model and the profile is left as it was.
C29_CascadeFirstMatchWins ==
    [][(HandlesTurn /\ ~UserTextOf(messages).inj) =>
          LET text == UserTextOf(messages)
              started == Len(runs') = Len(runs) + 1
          IN  /\ text.url # "" => started /\ Last(runs').handle = text.url
              /\ (text.url = "" /\ text.keyword # "") =>
                    started /\ Last(runs').handle = text.keyword
              /\ (text.url = "" /\ text.keyword = "" /\ text.correction # "")
                    => started /\ Last(runs').handle = text.correction
              /\ started <=>
                    (text.url # "" \/ text.keyword # "" \/ text.correction # "")
              /\ (text.url = "" /\ text.keyword = "" /\ text.correction = "")
                    => /\ runs' = runs
                       /\ state' = state
                       /\ turn'.phase = "reasoning"]_vars

\* a run was started for the capture of the URL pattern of a text in which
\* the two other patterns capture another handle, its profile was merged,
\* and a later turn that matches no pattern has gone to the model with that
\* profile still in the state
C29_Witness ==
    /\ Len(runs) = 1
    /\ messages[1].text.url = runs[1].handle
    /\ messages[1].text.keyword \notin {"", runs[1].handle}
    /\ messages[1].text.correction \notin {"", runs[1].handle}
    /\ runs[1].merged
    /\ state # <<>>
    /\ turn.phase = "reasoning"
    /\ turn.profile = state
    /\ extractTwitterHandle(UserTextOf(messages)) = ""

\* the moves of run() from one position to the next
StepOrder ==
    { <<"scrape", "summarize">>, <<"scrape", "exit">>, <<"scrape", "threw">>,
      <<"exit", "done">>,
      <<"summarize", "merge">>, <<"summarize", "threw">>,
      <<"merge", "report">>, <<"report", "done">> }

\* run r has got to its summarize step or beyond it
PastScrape(r) ==
    \/ runs[r].pc \in {"summarize", "merge", "report"}
    \/ runs[r].failedStep = "summarize-interests"
    \/ runs[r].merged

\* C31: the steps of a run execute in the order scrape, summarize, merge,
\* report: the summarize step starts only after the scrape step has
\* returned at least one tweet, and the profile is merged only after the
\* summarize step has returned it.
C31_StepsInOrder ==
    /\ [](\A r \in RunIds :
            /\ PastScrape(r) =>
                  runs[r].tweetCount >= 1 /\ runs[r].failedStep # "scrape-tweets"
            /\ (runs[r].pc \in {"merge", "report"} \/ runs[r].merged) =>
                  /\ runs[r].profile # <<>>
                  /\ runs[r].failedStep = "")
    /\ [][\A r \in 1..MaxRuns :
            (r \in RunIds /\ runs'[r].pc # runs[r].pc) =>
                /\ <<runs[r].pc, runs'[r].pc>> \in StepOrder
                /\ runs'[r].merged # runs[r].merged =>
                      runs[r].pc = "merge"]_vars

\* a run has gone through its four steps
C31_Witness ==
    \E r \in RunIds :
        /\ runs[r].pc = "done"
        /\ runs[r].tweetCount >= 1
        /\ runs[r].merged
        /\ runs[r].result = runs[r].profile
        /\ state = runs[r].profile

\* convertToModelMessages(this.messages): the role and the content of every
\* message of the history, in order; pruneMessages drops tool calls only
convertToModelMessages(msgs) ==
    [i \in 1..Len(msgs) |-> [role |-> msgs[i].role, content |-> msgs[i].text]]

\* onChatMessage starts the model in this step
StartsReasoning == HandlesTurn /\ turn'.phase = "reasoning"

\* the context holds the text of a turn that the injection check flags
HoldsFlaggedText(context) ==
    \E i \in 1..Len(context) :
        /\ context[i].role = "user"
        /\ detectInjection(context[i].content)

\* C32: the text of a user turn that the injection check flagged is never
\* in the messages given to the model, neither in the turn of that text
\* nor in a later turn of the session.
C32_FlaggedTextNeverInContext ==
    [][StartsReasoning =>
          ~HoldsFlaggedText(convertToModelMessages(messages))]_vars

\* the same within the flagged turn: the model is not started by the step
\* that handles a turn whose own text is flagged
FlaggedTurnNotReasoned ==
    [][(HandlesTurn /\ detectInjection(UserTextOf(messages)))
          => ~StartsReasoning]_vars

\* the user message of the turn in progress is still in the history
TriggerInHistory == HasId(messages, GeneratedId("u", nTurns))

\* the text of the user turn in progress
TriggerText ==
    (CHOOSE m \in Range(messages) : m.id = GeneratedId("u", nTurns)).text

\* C33: onChatMessage classifies the text of the user turn that triggered
\* it, also when a completion message was appended after that turn's user
\* message: a flagged turn is refused, and a run is started for a turn
\* that is not flagged exactly if a handle is extracted from its text.
C33_ClassifiesTriggeringTurn ==
    [][(HandlesTurn /\ TriggerInHistory) =>
          /\ detectInjection(TriggerText) =>
                turn' = [phase |-> "reply", reply |-> RefusalReply]
          /\ (~detectInjection(TriggerText)
                /\ extractTwitterHandle(TriggerText) # "") =>
                /\ Len(runs') = Len(runs) + 1
                /\ Last(runs').handle = extractTwitterHandle(TriggerText)
          /\ (~detectInjection(TriggerText)
                /\ extractTwitterHandle(TriggerText) = "") =>
                runs' = runs /\ turn'.phase = "reasoning"]_vars

\* the same, when the user message of the turn is still the last message
ClassifiesLastMessage ==
    [][(HandlesTurn /\ TriggerInHistory
            /\ Last(messages).id = GeneratedId("u", nTurns)) =>
          /\ detectInjection(TriggerText) =>
                turn' = [phase |-> "reply", reply |-> RefusalReply]
          /\ (~detectInjection(TriggerText)
                /\ extractTwitterHandle(TriggerText) # "") =>
                /\ Len(runs') = Len(runs) + 1
                /\ Last(runs').handle = extractTwitterHandle(TriggerText)
          /\ (~detectInjection(TriggerText)
                /\ extractTwitterHandle(TriggerText) = "") =>
                runs' = runs /\ turn'.phase = "reasoning"]_vars

\* the turns whose acknowledgement reply is in the history
AckTurns ==
    {t \in 1..nTurns :
        \E i \in 1..Len(messages) :
            /\ messages[i].id = GeneratedId("a", t)
            /\ messages[i].text.kind = "ack"}

\* the turn that started run r: runs are started one per acknowledged turn,
\* in order
AckTurn(r) ==
    CHOOSE t \in AckTurns : Cardinality({u \in AckTurns : u < t}) = r - 1

\* the place of the message with identifier id in the history
Pos(id) == CHOOSE i \in 1..Len(messages) : messages[i].id = id

\* C34: for every run started by a user turn, the history holds that user
\* turn, then the acknowledgement reply, then the completion message of the
\* run: the completion message never comes before the acknowledgement of
\* the turn that started the run.
C34_TurnAckCompletion ==
    \A r \in RunIds :
        runs[r].delivered >= 1 =>
            /\ Cardinality(AckTurns) >= r
            /\ HasId(messages, EventId(runs[r].result[1]))
            /\ Pos(GeneratedId("u", AckTurn(r))) < Pos(GeneratedId("a", AckTurn(r)))
            /\ Pos(GeneratedId("a", AckTurn(r))) < Pos(EventId(runs[r].result[1]))

\* the history msgs holds, in this order, the user turn that started run r,
\* its acknowledgement and the completion message of run r
InOrder(msgs, r) ==
    \E i, j, k \in 1..Len(msgs) :
        /\ i < j /\ j < k
        /\ msgs[i].id = GeneratedId("u", AckTurn(r))
        /\ msgs[j].id = GeneratedId("a", AckTurn(r))
        /\ msgs[k].id = EventId(runs[r].result[1])

\* the order holds for a run delivered after its acknowledgement was
\* persisted, when no message with the completion identifier was there yet
OrderWhenAckSentAndIdNew ==
    [][\A r \in 1..MaxRuns :
          (/\ r \in RunIds
           /\ runs'[r].delivered > runs[r].delivered
           /\ Cardinality(AckTurns) >= r
           /\ ~HasId(messages, EventId(runs[r].result[1])))
          => InOrder(messages', r)]_vars

\* the same delivery when a message with the completion identifier may be
\* there already
OrderWhenAckSent ==
    [][\A r \in 1..MaxRuns :
          (/\ r \in RunIds
           /\ runs'[r].delivered > runs[r].delivered
           /\ Cardinality(AckTurns) >= r)
          => InOrder(messages', r)]_vars

\* the progress events the connected page received from run r, in order
EventsOf(lv, r) == SelectSeq(lv.events, LAMBDA e : e.run = r)

\* run r reported a typed failure through reportComplete
ReportedFailure(r) ==
    runs[r].result # <<>> /\ "error" \in DOMAIN runs[r].result[1]

\* run r emitted a progress event with status "error"
EmittedError(r) ==
    \E i \in 1..Len(live.events) :
        live.events[i].run = r /\ live.events[i].progress.status = "error"

\* after reportComplete a run emits no progress event
NoProgressAfterReport ==
    [][\A r \in 1..MaxRuns :
          (r \in RunIds /\ runs[r].reported >= 1) =>
              EventsOf(live', r) = EventsOf(live, r)]_vars

\* a run that reported a typed failure emitted its "error" event first
ErrorEventBeforeReportedFailure ==
    \A r \in RunIds : ReportedFailure(r) => EmittedError(r)

\* C35: the terminal event is the last event of a run: after reportComplete
\* the run emits no progress event, and a run that has failed, by a reported
\* failure or by a step that exhausted its retries, emitted a progress event
\* with status "error" before it failed.
C35_TerminalEventIsLast ==
    /\ [](\A r \in RunIds :
            (ReportedFailure(r) \/ runs[r].pc = "threw") => EmittedError(r))
    /\ NoProgressAfterReport

\* C36: handling a progress event changes neither the message history nor
\* the stored profile: every step in which the connected page receives
\* progress events, one or several, repeated by a retried attempt or not,
\* leaves both as they were.
C36_ProgressLeavesHistoryAndFacts ==
    [][live'.events # live.events =>
          messages' = messages /\ state' = state]_vars

\* the page has received the "running" event of a retried attempt twice and
\* the "error" event of the early exit, and the history holds the user turn
C36_Witness ==
    /\ messages # <<>>
    /\ \E i, j \in 1..Len(live.events) :
          /\ i < j
          /\ live.events[i] = live.events[j]
    /\ \E r \in RunIds : EmittedError(r)

\* the percentages of the progress events received from run r, in order
PercentsOf(lv, r) ==
    LET withPercent ==
            SelectSeq(EventsOf(lv, r),
                      LAMBDA e : "percent" \in DOMAIN e.progress)
    IN  [i \in 1..Len(withPercent) |-> withPercent[i].progress.percent]

\* run r went through every step and reported its profile
Succeeded(r) ==
    /\ runs[r].pc = "done"
    /\ runs[r].merged
    /\ runs[r].failedStep = ""
    /\ runs[r].result = runs[r].profile
    /\ runs[r].profile # <<>>

PageAt(fetched, args, offset) ==
    LET out == SearchTalksResult(fetched, [args EXCEPT !.offset = offset])
    IN  IF "sentinel" \in DOMAIN out THEN <<>>
        ELSE [i \in 1..Len(out.talks) |-> out.talks[i].talk.slug]

\* the pages at offset, offset + limit, ... up to the number of matches,
\* one after the other
RECURSIVE PagesFrom(_, _, _, _)
PagesFrom(fetched, args, offset, total) ==
    IF offset >= total THEN <<>>
    ELSE PageAt(fetched, args, offset)
         \o PagesFrom(fetched, args, offset + args.limit, total)

\* Math.min(limit, Math.max(0, total - offset))
ShownOf(limit, total, offset) ==
    LET left == IF total - offset > 0 THEN total - offset ELSE 0
    IN  IF limit < left THEN limit ELSE left

\* the record in hand reports the number of matches and shows the page at
\* its offset, and the pages of its limit hold every match once, in order
PagingOf(talks) ==
    /\ call.out.totalMatches = Len(talks)
    /\ call.out.showing =
          ShownOf(call.args.limit, Len(talks), call.args.offset)
    /\ Len(call.out.talks) = call.out.showing
    /\ call.args.limit >= 1 =>
          PagesFrom(call.talks, call.args, 0, Len(talks))
              = [i \in 1..Len(talks) |-> talks[i].id]

\* C38: pagination is consistent: for fixed filters with a match, every
\* limit of at least one item and every offset get the same totalMatches,
\* the number of matches; the number of items shown is
\* min(limit, max(0, totalMatches - offset)); and the pages at offsets 0,
\* limit, 2*limit, ... hold every match once.
C38_PaginationConsistent ==
    (ByTool /\ call.args.limit >= 1
        /\ Matching(call.talks, call.args) # <<>>) =>
        /\ ~IsSentinel
        /\ PagingOf(Matching(call.talks, call.args))

\* the same for the calls that return a record
PagingWhenRecord ==
    (ByTool /\ ~IsSentinel) => PagingOf(Matching(call.talks, call.args))

\* the slugs of the items of the record in hand, in order
ShownSlugs == [i \in 1..Len(call.out.talks) |-> call.out.talks[i].talk.slug]

\* the start time of the i-th item of the record in hand
ShownStart(i) == call.out.talks[i].talk.start

\* C39: without interests (the keyword path) the items are in ascending
\* order of start time, and the first page holds the earliest matches: no
\* match left out starts before an item shown.  With interests the items
\* are the page of the ranking of searchByInterests, in its order.
C39_QueryByStartInterestsByRank ==
    (ByTool /\ ~IsSentinel) =>
        IF call.args.interests = <<>>
        THEN /\ \A i, j \in 1..Len(call.out.talks) :
                   i < j => ~LexLess(ShownStart(j), ShownStart(i))
             /\ call.args.offset = 0 =>
                   \A m \in Range(Matching(call.talks, call.args)) :
                       m.id \notin Range(ShownSlugs) =>
                           \A i \in 1..Len(call.out.talks) :
                               ~LexLess(m.start, ShownStart(i))
        ELSE LET ranked == searchByInterests(Filtered(call.talks, call.args),
                                             call.args.interests)
                 paged == slice(ranked, call.args.offset,
                                call.args.offset + call.args.limit)
             IN  ShownSlugs = [i \in 1..Len(paged) |-> paged[i].id]

\* a keyword search whose first page leaves out a match that scores higher
\* than every item it shows
C39_Witness ==
    /\ ByTool /\ ~IsSentinel
    /\ call.args.query # <<>> /\ call.args.offset = 0
    /\ LET talks == Matching(call.talks, call.args)
           words == QueryTokens(call.args.query)
       IN  \E k \in 1..Len(talks) :
               /\ k > Len(call.out.talks)
               /\ \A i \in 1..Len(call.out.talks) :
                     Score(talks[k], words) > Score(talks[i], words)

====
